---- MODULE Spec2Model ----
(***************************************************************************)
(* Windowed sieve of Eratosthenes with an on-disk prime record store       *)
(* (src/src/main.rs).  The store file primes.bin is modelled as a sequence *)
(* of bytes, a file handle as a byte offset into it, and the program as a  *)
(* sequential state machine whose position is pc.                          *)
(***************************************************************************)
EXTENDS Integers, Sequences, FiniteSets, TLC

VARIABLES
    pc,              \* position of the program
    buffer_size,     \* Args.window_size (W)
    upper_limit,     \* Args.upper_limit (U)
    fast,            \* Args.fast
    endian,          \* byte order of the target ("native" byte order)
    bin_exists,      \* primes.bin exists
    bin,             \* bytes of primes.bin
    csv_exists,      \* primes.csv exists
    csv,             \* text of primes.csv
    fp,              \* byte offset of the sieve's file handle
    current_window,  \* sieve: first integer of the current window
    is_prime,        \* sieve: flag array (index val is element val + 1)
    cp,              \* sieve: the record held in memory
    entered_loop,    \* sieve: mark phase flag
    potential_prime, \* sieve: loop variable of the discover phase
    input,           \* prime_bin2csv: byte offset of the input handle
    writer,          \* prime_bin2csv: text buffered in the BufWriter
    count,           \* prime_bin2csv: number of records exported
    prime,           \* prime_bin2csv: the record held in memory
    slept,           \* number of pacing delays taken
    ret              \* result of the most recent file call

vars == <<pc, buffer_size, upper_limit, fast, endian, bin_exists, bin,
          csv_exists, csv, fp, current_window, is_prime, cp, entered_loop,
          potential_prime, input, writer, count, prime, slept, ret>>

args == <<buffer_size, upper_limit, fast, endian>>
sieve_locals == <<current_window, is_prime, cp, entered_loop, potential_prime>>
export_locals == <<input, writer, count, prime>>

(***************************************************************************)
(* Bounds of the model.                                                    *)
(***************************************************************************)
MaxWindow == 10
MaxLimit == 30
MaxOldRecords == 2
MaxStoreRecords == 2

(***************************************************************************)
(* Program constants.                                                      *)
(***************************************************************************)
SIZE == 16
MarkPace == 1000000
DiscoverPace == 100000
ExportPace == 10000

Max(a, b) == IF a > b THEN a ELSE b

(***************************************************************************)
(* Prime record encoding: two u64 fields in native byte order.             *)
(***************************************************************************)
RECURSIVE LittleEndian(_, _)
LittleEndian(n, k) ==
    IF k = 0 THEN <<>> ELSE <<n % 256>> \o LittleEndian(n \div 256, k - 1)

Reverse(s) == [i \in 1..Len(s) |-> s[Len(s) + 1 - i]]

to_ne_bytes(n) ==
    IF endian = "little" THEN LittleEndian(n, 8) ELSE Reverse(LittleEndian(n, 8))

RECURSIVE FromLittleEndian(_)
FromLittleEndian(b) ==
    IF b = <<>> THEN 0 ELSE Head(b) + 256 * FromLittleEndian(Tail(b))

from_ne_bytes(b) ==
    IF endian = "little" THEN FromLittleEndian(b) ELSE FromLittleEndian(Reverse(b))

Prime(p, nextval) == [p |-> p, nextval |-> nextval]

(***************************************************************************)
(* Store operations.  f is the file's bytes, pos a handle's byte offset.   *)
(***************************************************************************)
\* mutant: the file is opened with truncate(true)
prime_open_Truncate(exists, f) == <<>>

\* OpenOptions read+write+create: an existing file keeps its bytes.
prime_open(exists, f) == IF exists THEN f ELSE <<>>

\* mutant: the last record of the file is taken for the end of the file
prime_read_ShortEof(f, pos, old) ==
    IF pos + SIZE < Len(f)
    THEN [res |-> "Ok(true)",
          prime |-> Prime(from_ne_bytes(SubSeq(f, pos + 1, pos + 8)),
                          from_ne_bytes(SubSeq(f, pos + 9, pos + 16))),
          pos |-> pos + SIZE]
    ELSE [res |-> "Ok(false)", prime |-> old, pos |-> pos]

\* read_exact of SIZE bytes: UnexpectedEof (fewer than SIZE bytes left) is
\* mapped to Ok(false); the handle has then consumed the remaining bytes.
prime_read(f, pos, old) ==
    IF pos + SIZE <= Len(f)
    THEN [res |-> "Ok(true)",
          prime |-> Prime(from_ne_bytes(SubSeq(f, pos + 1, pos + 8)),
                          from_ne_bytes(SubSeq(f, pos + 9, pos + 16))),
          pos |-> pos + SIZE]
    ELSE [res |-> "Ok(false)", prime |-> old, pos |-> Max(pos, Len(f))]

WriteAt(f, pos, b) ==
    [i \in 1..Max(Len(f), pos + Len(b)) |->
        IF i > pos /\ i <= pos + Len(b) THEN b[i - pos]
        ELSE IF i <= Len(f) THEN f[i] ELSE 0]

\* mutant: a positioned write, which leaves the handle where it was
prime_write_AtOffset(f, pos, r) ==
    LET buf == to_ne_bytes(r.p) \o to_ne_bytes(r.nextval)
    IN  [file |-> WriteAt(f, pos, buf), pos |-> pos]

prime_write(f, pos, r) ==
    LET buf == to_ne_bytes(r.p) \o to_ne_bytes(r.nextval)
    IN  [file |-> WriteAt(f, pos, buf), pos |-> pos + Len(buf)]

\* mutant: the seek goes back by one field, not by one record
prime_unread_OneField(pos) ==
    IF pos >= 8 THEN [res |-> "Ok", pos |-> pos - 8]
    ELSE [res |-> "Err", pos |-> pos]

\* mutant: the seek back is left out
prime_unread_NoSeek(pos) == [res |-> "Ok", pos |-> pos]

\* seek(Current(-SIZE)): seeking before offset 0 is an error.
prime_unread(pos) ==
    IF pos >= SIZE THEN [res |-> "Ok", pos |-> pos - SIZE]
    ELSE [res |-> "Err", pos |-> pos]

(***************************************************************************)
(* Helpers of sieve.                                                       *)
(***************************************************************************)
\* mutant: one flag too many is allocated
NewFlags_OneMore(n) == [i \in 1..(n + 1) |-> TRUE]

\* vec![true; buffer_size]
NewFlags(n) == [i \in 1..n |-> TRUE]

\* is_prime.fill(true)
Fill(flags) == [i \in 1..Len(flags) |-> TRUE]

\* mutant: the window's end is taken as part of the window
InWindow_Inclusive(r, cur, w) == r.nextval <= cur + w

\* the loop condition  cp.nextval < current_window + u64::from(buffer_size)
InWindow(r, cur, w) == r.nextval < cur + w

\* (nextval - current_window) as usize overflows when nextval < current_window
Underflow(nextval, cur) == nextval < cur

\* mutant: the flag is cleared inside the block of the pacing test
MarkFlag_OnlyWhenPaced(flags, nextval, cur, w) ==
    IF ~fast /\ ~Underflow(nextval, cur) /\ nextval - cur < w
    THEN [flags EXCEPT ![nextval - cur + 1] = FALSE]
    ELSE flags

\* let val = (nextval - current_window) as usize;
\* if val < buffer_size as usize { is_prime[val] = false; }
\* A wrapped difference is at least 2^64 - current_window, above any u32.
MarkFlag(flags, nextval, cur, w) ==
    IF ~Underflow(nextval, cur) /\ nextval - cur < w
    THEN [flags EXCEPT ![nextval - cur + 1] = FALSE]
    ELSE flags

\* mutant: nextval is not advanced
Advance_NoStep(r) == r

\* mutant: the step is off by one
Advance_OffByOne(r) == [r EXCEPT !.nextval = r.nextval + r.p + 1]

\* cp.nextval += cp.p
Advance(r) == [r EXCEPT !.nextval = r.nextval + r.p]

\* cp.p = potential_prime; cp.nextval = cp.p + cp.p
NewPrime(pp) == Prime(pp, pp + pp)

\* let start_p = if current_window == 0 { 2 } else { current_window }
start_p(cur) == IF cur = 0 THEN 2 ELSE cur

\* val < buffer_size as usize && is_prime[val]
IsCandidate(flags, pp, cur, w) ==
    /\ ~Underflow(pp, cur)
    /\ pp - cur < w
    /\ flags[pp - cur + 1]

\* if !fast && n % pace == 0 { thread::sleep(..) }
Pause(n, pace) == IF ~fast /\ n % pace = 0 THEN 1 ELSE 0

\* an arithmetic overflow panics in a build with overflow checks and wraps
\* in a build without them
AfterSub(nextval, cur, next) ==
    IF Underflow(nextval, cur) THEN {"panic", next} ELSE {next}

(***************************************************************************)
(* Helpers of prime_bin2csv.                                               *)
(***************************************************************************)
Digit(d) == CASE d = 0 -> "0" [] d = 1 -> "1" [] d = 2 -> "2" [] d = 3 -> "3"
              [] d = 4 -> "4" [] d = 5 -> "5" [] d = 6 -> "6" [] d = 7 -> "7"
              [] d = 8 -> "8" [] d = 9 -> "9"

\* Display of an unsigned integer: decimal digits, no padding
RECURSIVE Decimal(_)
Decimal(n) == IF n < 10 THEN Digit(n) ELSE Decimal(n \div 10) \o Digit(n % 10)

\* mutant: the two fields are written in the other order
CsvLine_Swapped(r) == Decimal(r.nextval) \o "," \o Decimal(r.p) \o "\n"

\* writeln!(writer, "{},{}", prime.p, prime.nextval)
CsvLine(r) == Decimal(r.p) \o "," \o Decimal(r.nextval) \o "\n"

(***************************************************************************)
(* main: files_remove, sieve, prime_bin2csv.                               *)
(***************************************************************************)
\* mutant: the store of an earlier run is left in place
FilesRemove_KeepStore ==
    /\ pc = "files_remove"
    /\ csv_exists' = FALSE /\ csv' = ""
    /\ ret' = IF bin_exists THEN "removed" ELSE "absent"
    /\ pc' = "sieve"
    /\ UNCHANGED <<args, bin_exists, bin, fp, sieve_locals, export_locals, slept>>

\* files_remove(): both files are removed when they exist; ret tells whether
\* Path::exists found a primes.bin to remove
FilesRemove ==
    /\ pc = "files_remove"
    /\ bin_exists' = FALSE /\ bin' = <<>>
    /\ csv_exists' = FALSE /\ csv' = ""
    /\ ret' = IF bin_exists THEN "removed" ELSE "absent"
    /\ pc' = "sieve"
    /\ UNCHANGED <<args, fp, sieve_locals, export_locals, slept>>

\* sieve, lines 94-96
SieveEnter ==
    /\ pc = "sieve"
    /\ current_window' = 0
    /\ is_prime' = NewFlags(buffer_size)
    /\ bin' = prime_open(bin_exists, bin)
    /\ bin_exists' = TRUE
    /\ fp' = 0
    /\ pc' = "window_loop"
    /\ UNCHANGED <<args, csv_exists, csv, cp, entered_loop, potential_prime,
                   export_locals, slept, ret>>

\* while current_window < upper_limit: lines 98-104
WindowBegin ==
    /\ pc = "window_loop"
    /\ current_window < upper_limit
    /\ is_prime' = Fill(is_prime)
    /\ cp' = Prime(0, 0)
    /\ pc' = "mark_read"
    /\ UNCHANGED <<args, bin_exists, bin, csv_exists, csv, fp, current_window,
                   entered_loop, potential_prime, export_locals, slept, ret>>

\* while prime_read(&mut fp, &mut cp)? -- a record was read: lines 107-108
MarkRead ==
    /\ pc = "mark_read"
    /\ LET r == prime_read(bin, fp, cp) IN
        /\ r.res = "Ok(true)"
        /\ cp' = r.prime
        /\ fp' = r.pos
        /\ ret' = r.res
    /\ entered_loop' = FALSE
    /\ pc' = "mark_loop"
    /\ UNCHANGED <<args, bin_exists, bin, csv_exists, csv, current_window,
                   is_prime, potential_prime, export_locals, slept>>

\* prime_read returned Ok(false): the mark phase ends, the for loop of the
\* discover phase starts: lines 107, 129-130
MarkEof ==
    /\ pc = "mark_read"
    /\ LET r == prime_read(bin, fp, cp) IN
        /\ r.res = "Ok(false)"
        /\ cp' = r.prime
        /\ fp' = r.pos
        /\ ret' = r.res
    /\ potential_prime' = start_p(current_window)
    /\ pc' = "discover"
    /\ UNCHANGED <<args, bin_exists, bin, csv_exists, csv, current_window,
                   is_prime, entered_loop, export_locals, slept>>

\* one iteration of the marking loop: lines 110-120
MarkBody ==
    /\ pc = "mark_loop"
    /\ InWindow(cp, current_window, buffer_size)
    /\ entered_loop' = TRUE
    /\ is_prime' = MarkFlag(is_prime, cp.nextval, current_window, buffer_size)
    /\ slept' = slept + Pause(cp.nextval, MarkPace)
    /\ cp' = Advance(cp)
    /\ pc' \in AfterSub(cp.nextval, current_window, "mark_loop")
    /\ UNCHANGED <<args, bin_exists, bin, csv_exists, csv, fp, current_window,
                   potential_prime, export_locals, ret>>

\* the marking loop ran: prime_unread, prime_write: lines 122-125
MarkRewrite ==
    /\ pc = "mark_loop"
    /\ ~InWindow(cp, current_window, buffer_size)
    /\ entered_loop
    /\ LET u == prime_unread(fp)
           w == prime_write(bin, u.pos, cp)
       IN  IF u.res = "Ok"
           THEN bin' = w.file /\ fp' = w.pos /\ ret' = "Ok" /\ pc' = "mark_read"
           ELSE bin' = bin /\ fp' = u.pos /\ ret' = "Err" /\ pc' = "io_error"
    /\ UNCHANGED <<args, bin_exists, csv_exists, csv, sieve_locals,
                   export_locals, slept>>

\* the marking loop did not run: the record is left as it is
MarkSkip ==
    /\ pc = "mark_loop"
    /\ ~InWindow(cp, current_window, buffer_size)
    /\ ~entered_loop
    /\ pc' = "mark_read"
    /\ UNCHANGED <<args, bin_exists, bin, csv_exists, csv, fp, sieve_locals,
                   export_locals, slept, ret>>

\* for potential_prime in start_p..current_window + buffer_size, a flag
\* still set: lines 130-134
DiscoverPrime ==
    /\ pc = "discover"
    /\ potential_prime < current_window + buffer_size
    /\ IsCandidate(is_prime, potential_prime, current_window, buffer_size)
    /\ cp' = NewPrime(potential_prime)
    /\ pc' = "discover_mark"
    /\ UNCHANGED <<args, bin_exists, bin, csv_exists, csv, fp, current_window,
                   is_prime, entered_loop, potential_prime, export_locals,
                   slept, ret>>

\* a flag already cleared: next iteration of the for loop
DiscoverSkip ==
    /\ pc = "discover"
    /\ potential_prime < current_window + buffer_size
    /\ ~IsCandidate(is_prime, potential_prime, current_window, buffer_size)
    /\ potential_prime' = potential_prime + 1
    /\ UNCHANGED <<pc, args, bin_exists, bin, csv_exists, csv, fp,
                   current_window, is_prime, cp, entered_loop, export_locals,
                   slept, ret>>

\* one iteration of the loop marking the new prime's multiples: lines 137-146
DiscoverMarkBody ==
    /\ pc = "discover_mark"
    /\ InWindow(cp, current_window, buffer_size)
    /\ is_prime' = MarkFlag(is_prime, cp.nextval, current_window, buffer_size)
    /\ slept' = slept + Pause(cp.nextval, DiscoverPace)
    /\ cp' = Advance(cp)
    /\ pc' \in AfterSub(cp.nextval, current_window, "discover_mark")
    /\ UNCHANGED <<args, bin_exists, bin, csv_exists, csv, fp, current_window,
                   entered_loop, potential_prime, export_locals, ret>>

\* mutant: the record is written as (p, p + p), before its nextval
\* was advanced past the window
DiscoverAppend_Unadvanced ==
    /\ pc = "discover_mark"
    /\ ~InWindow(cp, current_window, buffer_size)
    /\ LET w == prime_write(bin, fp, NewPrime(potential_prime))
       IN  bin' = w.file /\ fp' = w.pos
    /\ ret' = "Ok"
    /\ potential_prime' = potential_prime + 1
    /\ pc' = "discover"
    /\ UNCHANGED <<args, bin_exists, csv_exists, csv, current_window, is_prime,
                   cp, entered_loop, export_locals, slept>>

\* prime_write(&mut fp, &cp)? and the next iteration of the for loop: line 147
DiscoverAppend ==
    /\ pc = "discover_mark"
    /\ ~InWindow(cp, current_window, buffer_size)
    /\ LET w == prime_write(bin, fp, cp) IN bin' = w.file /\ fp' = w.pos
    /\ ret' = "Ok"
    /\ potential_prime' = potential_prime + 1
    /\ pc' = "discover"
    /\ UNCHANGED <<args, bin_exists, csv_exists, csv, current_window, is_prime,
                   cp, entered_loop, export_locals, slept>>

\* the for loop is exhausted: seek(Start(0)), current_window += buffer_size:
\* lines 151-152
WindowEnd ==
    /\ pc = "discover"
    /\ ~(potential_prime < current_window + buffer_size)
    /\ fp' = 0
    /\ current_window' = current_window + buffer_size
    /\ pc' = "window_loop"
    /\ UNCHANGED <<args, bin_exists, bin, csv_exists, csv, is_prime, cp,
                   entered_loop, potential_prime, export_locals, slept, ret>>

\* current_window >= upper_limit: flush and return; the locals are dropped:
\* lines 98, 155-156
SieveReturn ==
    /\ pc = "window_loop"
    /\ ~(current_window < upper_limit)
    /\ is_prime' = <<>>
    /\ pc' = "bin2csv"
    /\ UNCHANGED <<args, bin_exists, bin, csv_exists, csv, fp, current_window,
                   cp, entered_loop, potential_prime, export_locals, slept, ret>>

\* prime_bin2csv, lines 76-80: File::create truncates the output
ExportOpen ==
    /\ pc = "bin2csv"
    /\ bin' = prime_open(bin_exists, bin)
    /\ bin_exists' = TRUE
    /\ input' = 0
    /\ csv_exists' = TRUE /\ csv' = ""
    /\ writer' = ""
    /\ count' = 0
    /\ prime' = Prime(0, 0)
    /\ pc' = "export_loop"
    /\ UNCHANGED <<args, fp, sieve_locals, slept, ret>>

\* while prime_read(&mut input, &mut prime)? -- a record was read: lines 82-88
ExportLine ==
    /\ pc = "export_loop"
    /\ LET r == prime_read(bin, input, prime) IN
        /\ r.res = "Ok(true)"
        /\ prime' = r.prime
        /\ input' = r.pos
        /\ ret' = r.res
        /\ writer' = writer \o CsvLine(r.prime)
    /\ count' = count + 1
    /\ slept' = slept + Pause(count + 1, ExportPace)
    /\ UNCHANGED <<pc, args, bin_exists, bin, csv_exists, csv, fp, sieve_locals>>

\* prime_read returned Ok(false): writer.flush(), Ok(count): lines 82, 89-90
ExportFinish ==
    /\ pc = "export_loop"
    /\ LET r == prime_read(bin, input, prime) IN
        /\ r.res = "Ok(false)"
        /\ prime' = r.prime
        /\ input' = r.pos
        /\ ret' = r.res
    /\ csv' = csv \o writer
    /\ writer' = ""
    /\ pc' = "done"
    /\ UNCHANGED <<args, bin_exists, bin, csv_exists, fp, sieve_locals, count,
                   slept>>

(***************************************************************************)
(* The program.  A store or an export file left by an earlier run may      *)
(* exist when main starts.                                                 *)
(***************************************************************************)
OldRecords == {Prime(2, 6), Prime(9, 9)}

RECURSIVE SeqsUpTo(_, _)
SeqsUpTo(S, n) ==
    IF n = 0 THEN {<<>>}
    ELSE LET shorter == SeqsUpTo(S, n - 1)
         IN  shorter \cup {Append(s, x) : s \in shorter, x \in S}

RECURSIVE Encode(_)
Encode(rs) ==
    IF rs = <<>> THEN <<>>
    ELSE to_ne_bytes(Head(rs).p) \o to_ne_bytes(Head(rs).nextval) \o Encode(Tail(rs))

Init ==
    /\ pc = "files_remove"
    /\ buffer_size \in 0..MaxWindow
    /\ upper_limit \in 0..MaxLimit
    /\ fast \in BOOLEAN
    /\ endian \in {"little", "big"}
    /\ bin_exists \in BOOLEAN
    /\ bin \in IF bin_exists
               THEN {Encode(rs) : rs \in SeqsUpTo(OldRecords, MaxOldRecords)}
               ELSE {<<>>}
    /\ csv_exists \in BOOLEAN
    /\ csv = IF csv_exists THEN "2,6\n" ELSE ""
    /\ fp = 0
    /\ current_window = 0
    /\ is_prime = <<>>
    /\ cp = Prime(0, 0)
    /\ entered_loop = FALSE
    /\ potential_prime = 0
    /\ input = 0
    /\ writer = ""
    /\ count = 0
    /\ prime = Prime(0, 0)
    /\ slept = 0
    /\ ret = "none"

Next ==
    \/ FilesRemove
    \/ SieveEnter
    \/ WindowBegin
    \/ MarkRead
    \/ MarkEof
    \/ MarkBody
    \/ MarkRewrite
    \/ MarkSkip
    \/ DiscoverPrime
    \/ DiscoverSkip
    \/ DiscoverMarkBody
    \/ DiscoverAppend
    \/ WindowEnd
    \/ SieveReturn
    \/ ExportOpen
    \/ ExportLine
    \/ ExportFinish

Spec == Init /\ [][Next]_vars

(***************************************************************************)
(* The store on its own: the store operations applied, in the orders their *)
(* callers use them, to a file that may end in a truncated record.         *)
(***************************************************************************)
StoreValues == {Prime(2, 4), Prime(3, 6), Prime(3, 9)}
TailLengths == {0, 1, 8, 15}

StoreInit ==
    /\ pc = "store"
    /\ buffer_size = 0
    /\ upper_limit = 0
    /\ fast = TRUE
    /\ endian \in {"little", "big"}
    /\ bin_exists = TRUE
    /\ \E rs \in SeqsUpTo(StoreValues, MaxStoreRecords), t \in StoreValues,
          n \in TailLengths :
            bin = Encode(rs) \o SubSeq(Encode(<<t>>), 1, n)
    /\ csv_exists = FALSE
    /\ csv = ""
    /\ fp = 0
    /\ current_window = 0
    /\ is_prime = <<>>
    /\ cp = Prime(0, 0)
    /\ entered_loop = FALSE
    /\ potential_prime = 0
    /\ input = 0
    /\ writer = ""
    /\ count = 0
    /\ prime = Prime(0, 0)
    /\ slept = 0
    /\ ret = "none"

store_frame == <<pc, args, bin_exists, csv_exists, csv, current_window, is_prime,
                 entered_loop, potential_prime, export_locals, slept>>

\* ReadNext: prime_read
StoreRead ==
    /\ pc = "store"
    /\ LET r == prime_read(bin, fp, cp) IN
        /\ cp' = r.prime
        /\ fp' = r.pos
        /\ ret' = r.res
    /\ UNCHANGED <<store_frame, bin>>

\* RewriteLast: prime_unread, prime_write, right after a record was read
StoreRewriteLast ==
    /\ pc = "store"
    /\ ret = "Ok(true)"
    /\ \E v \in StoreValues :
        LET u == prime_unread(fp)
            w == prime_write(bin, u.pos, Prime(cp.p, v.nextval))
        IN  /\ u.res = "Ok"
            /\ bin' = w.file
            /\ fp' = w.pos
            /\ cp' = Prime(cp.p, v.nextval)
    /\ ret' = "Ok"
    /\ UNCHANGED store_frame

\* Append: prime_write once the read pass has reported its end
StoreAppend ==
    /\ pc = "store"
    /\ ret = "Ok(false)"
    /\ fp % SIZE = 0
    /\ Len(bin) < MaxStoreRecords * SIZE
    /\ \E v \in StoreValues :
        LET w == prime_write(bin, fp, v)
        IN  bin' = w.file /\ fp' = w.pos /\ cp' = v
    /\ ret' = "Ok"
    /\ UNCHANGED store_frame

\* Rewind: seek(Start(0))
StoreRewind ==
    /\ pc = "store"
    /\ fp' = 0
    /\ ret' = "Ok"
    /\ UNCHANGED <<store_frame, bin, cp>>

StoreNext == StoreRead \/ StoreRewriteLast \/ StoreAppend \/ StoreRewind

SpecStore == StoreInit /\ [][StoreNext]_vars

(***************************************************************************)
(* Observations used by the properties.                                    *)
(***************************************************************************)
NumRecords == Len(bin) \div SIZE

\* the whole records of the store, in file order
Records == [i \in 1..NumRecords |-> prime_read(bin, (i - 1) * SIZE, Prime(0, 0)).prime]

RecordsOf(f) ==
    [i \in 1..(Len(f) \div SIZE) |-> prime_read(f, (i - 1) * SIZE, Prime(0, 0)).prime]

StoredPrimes == {Records[i].p : i \in 1..NumRecords}

IsPrimeNumber(n) == n >= 2 /\ \A d \in 2..(n - 1) : n % d # 0

InRun == pc # "files_remove" /\ pc # "store"
InSieve == pc \in {"window_loop", "mark_read", "mark_loop", "discover", "discover_mark"}
SieveDone == pc \in {"bin2csv", "export_loop", "done"}

StrictlyAscending(rs) == \A i \in 1..(Len(rs) - 1) : rs[i].p < rs[i + 1].p

SamePrimesPrefix(rs, rt) ==
    /\ Len(rs) <= Len(rt)
    /\ \A i \in 1..Len(rs) : rs[i].p = rt[i].p

\* the smallest multiple of p that is >= n and > p
MultipleFrom(p, n) ==
    LET m == ((n + p - 1) \div p) * p IN IF m > p THEN m ELSE p + p

RECURSIVE ExpectedCsv(_)
ExpectedCsv(rs) ==
    IF rs = <<>> THEN ""
    ELSE ToString(Head(rs).p) \o "," \o ToString(Head(rs).nextval) \o "\n"
         \o ExpectedCsv(Tail(rs))

(***************************************************************************)
(* Properties.                                                             *)
(***************************************************************************)
\* C1: after sieve(W, U) has finished on an empty store, with W >= 1, every
\* n in [2, U) is the p of some record if and only if n is prime.
C1_PrimesBelowLimit ==
    (SieveDone /\ buffer_size >= 1) =>
        \A n \in 2..(upper_limit - 1) : (n \in StoredPrimes) <=> IsPrimeNumber(n)

\* C2: no record with p >= U is ever appended to the store.
C2_NoPrimeAtOrAboveLimit ==
    InRun => \A i \in 1..NumRecords : Records[i].p < upper_limit

\* C3: in every state of a run every record of the store has a nextval that
\* is a multiple of its p and greater than its p.
C3_NextvalMultiple ==
    InRun => \A i \in 1..NumRecords :
                /\ Records[i].p > 0
                /\ Records[i].nextval % Records[i].p = 0
                /\ Records[i].nextval > Records[i].p

C3_Witness ==
    /\ InSieve
    /\ NumRecords >= 3
    /\ \E i \in 1..NumRecords : Records[i].nextval > 3 * Records[i].p
    /\ \E i \in 1..NumRecords : Records[i].nextval = 2 * Records[i].p

\* C4: the records of the store are always in strictly ascending order of p,
\* and every step of a run keeps the p of every record already written: the
\* sequence of p values before a step is a prefix of the one after it.
C4_AscendingAndStable ==
    [][/\ InRun' => StrictlyAscending(RecordsOf(bin'))
       /\ (InRun /\ InRun') => SamePrimesPrefix(Records, RecordsOf(bin'))]_vars

C4_Witness ==
    /\ pc = "mark_read"
    /\ ret = "Ok"
    /\ fp >= 2 * SIZE
    /\ fp < Len(bin)
    /\ cp.nextval > 2 * cp.p

\* C5: for every W >= 1, a run with U = 0 or U = 1 ends with no record and a
\* run with U = 2 ends with exactly the record (2, 4).
C5_BoundaryLimits ==
    (pc = "done" /\ buffer_size >= 1) =>
        /\ upper_limit \in {0, 1} => NumRecords = 0
        /\ upper_limit = 2 => Records = <<Prime(2, 4)>>

\* C6: at the end of a run with U a multiple of W the store holds exactly the
\* primes below U, ascending, each with the smallest multiple of p that is
\* >= U as nextval; at the end of every window each record's nextval is the
\* smallest multiple of p that is >= the window's end and > p.
C6_NextvalAtWindowEnd ==
    /\ (SieveDone /\ buffer_size >= 1 /\ upper_limit % buffer_size = 0) =>
          /\ StoredPrimes = {n \in 2..(upper_limit - 1) : IsPrimeNumber(n)}
          /\ StrictlyAscending(Records)
          /\ \A i \in 1..NumRecords :
                Records[i].nextval = MultipleFrom(Records[i].p, upper_limit)
    /\ (pc = "window_loop" /\ current_window > 0) =>
          \A i \in 1..NumRecords :
                Records[i].nextval = MultipleFrom(Records[i].p, current_window)

\* C7: no step of a run decreases the number of records in the store.
C7_CountNeverDecreases ==
    [][(InRun /\ InRun') => Len(bin') \div SIZE >= NumRecords]_vars

C7_Witness ==
    /\ pc = "done"
    /\ current_window >= 3 * buffer_size
    /\ NumRecords >= 4
    /\ count = NumRecords

\* C8: prime_read reports the end of the pass only at a clean end of file;
\* with 1 to SIZE - 1 bytes left it fails with an I/O error.  (The handle is
\* record aligned before every read, so after a read that found fewer than
\* SIZE bytes a truncated record shows as a length that is no multiple of
\* SIZE.)
C8_TruncatedIsError ==
    (pc = "store" /\ ret = "Ok(false)") => Len(bin) % SIZE = 0

\* C9: while sieve runs, the flag array has exactly W entries and one record
\* is held in memory, whatever U and the number of stored records are.
C9_WorkingSetOneWindow ==
    InSieve => /\ Len(is_prime) = buffer_size
               /\ DOMAIN cp = {"p", "nextval"}

C9_Witness ==
    /\ pc = "mark_loop"
    /\ NumRecords > buffer_size
    /\ upper_limit > 2 * buffer_size
    /\ buffer_size >= 2

\* C10: the export leaves the store as it is, writes one line "p,nextval" per
\* record in store order and returns the number of records.
C10_ExportFrame ==
    /\ [][(pc \in {"bin2csv", "export_loop"}) => bin' = bin]_vars
    /\ [](pc = "export_loop" => /\ input = count * SIZE
                                 /\ writer = ExpectedCsv(SubSeq(Records, 1, count)))
    /\ [](pc = "done" => /\ csv = ExpectedCsv(Records)
                          /\ count = NumRecords)

C10_Witness ==
    /\ pc = "done"
    /\ count >= 5
    /\ \E i \in 1..NumRecords : Records[i].nextval >= 10

(***************************************************************************)
(* The store as a function of the window reached and of W alone.           *)
(***************************************************************************)
\* the primes below n, ascending
RECURSIVE PrimeSeq(_)
PrimeSeq(n) ==
    IF n <= 2 THEN <<>>
    ELSE IF IsPrimeNumber(n - 1) THEN Append(PrimeSeq(n - 1), n - 1)
         ELSE PrimeSeq(n - 1)

\* the records once every window below cur has been processed: with W = 1
\* the one record of 1, else the primes below cur
StoreAfter(cur, w) ==
    IF w = 1
    THEN IF cur <= 1 THEN <<>> ELSE <<Prime(1, cur)>>
    ELSE LET ps == PrimeSeq(cur)
         IN  [i \in 1..Len(ps) |-> Prime(ps[i], MultipleFrom(ps[i], cur))]

\* the first multiple of W that is >= U: where the window loop stops
LastWindowEnd(u, w) == IF w = 0 THEN 0 ELSE ((u + w - 1) \div w) * w

\* C11: whatever store an earlier run left, it is gone before sieve opens the
\* store, the first ReadNext of the run finds no record, and the store at the
\* end is a function of (U, W) alone.
C11_CleanStart ==
    /\ pc = "sieve" => (~bin_exists /\ bin = <<>>)
    /\ (pc = "mark_read" /\ current_window = 0) =>
          prime_read(bin, fp, cp).res = "Ok(false)"
    /\ pc = "done" =>
          Records = StoreAfter(LastWindowEnd(upper_limit, buffer_size), buffer_size)

C11_Witness ==
    /\ pc = "mark_read"
    /\ current_window = 0
    /\ ret = "removed"
    /\ upper_limit > buffer_size
    /\ buffer_size >= 2

IsAppendStep == pc = "discover_mark" /\ pc' = "discover"

LastRecord(f) == RecordsOf(f)[Len(f) \div SIZE]

IsRewriteStep == pc = "mark_loop" /\ pc' = "mark_read" /\ entered_loop

\* C14: RewriteLast overwrites exactly the record ReadNext returned last, at
\* its offset: the file length, the record's p and every other record stay,
\* its nextval changes, and the handle ends right after it, so that the next
\* ReadNext returns the following record (or the end of the pass).
C14_RewriteLastFrame ==
    [][IsRewriteStep =>
        LET k == fp \div SIZE
            after == RecordsOf(bin')
        IN  /\ fp % SIZE = 0 /\ k >= 1
            /\ Len(bin') = Len(bin)
            /\ fp' = fp
            /\ \A i \in 1..NumRecords : i # k => after[i] = Records[i]
            /\ after[k].p = Records[k].p
            /\ after[k].nextval = cp.nextval
            /\ after[k].nextval # Records[k].nextval
            /\ IF k < NumRecords
               THEN /\ prime_read(bin', fp', cp).res = "Ok(true)"
                    /\ prime_read(bin', fp', cp).prime = Records[k + 1]
               ELSE prime_read(bin', fp', cp).res = "Ok(false)"]_vars

C14_Witness ==
    /\ pc = "mark_read"
    /\ ret = "Ok"
    /\ fp >= SIZE
    /\ Records[fp \div SIZE] = cp
    /\ prime_read(bin, fp, cp).res = "Ok(true)"
    /\ prime_read(bin, fp, cp).prime.nextval < current_window + buffer_size

\* C15: the discover phase of a window starts only when ReadNext has
\* reported the end of the pass, the handle is at the end of the file during
\* the whole discover phase, and every append keeps all the bytes already
\* in the store and adds exactly one record.
C15_AppendAtEndOfFile ==
    /\ [](pc \in {"discover", "discover_mark"} =>
            /\ fp = Len(bin)
            /\ Len(bin) % SIZE = 0)
    /\ [][(pc # "discover" /\ pc # "discover_mark" /\ pc' = "discover") =>
            (pc = "mark_read" /\ ret' = "Ok(false)")]_vars
    /\ [][IsAppendStep =>
            /\ Len(bin') = Len(bin) + SIZE
            /\ SubSeq(bin', 1, Len(bin)) = bin
            /\ fp' = Len(bin')]_vars

C15_Witness ==
    /\ pc = "discover"
    /\ current_window > 0
    /\ ret = "Ok"
    /\ fp = Len(bin)
    /\ NumRecords >= 4
    /\ Records[NumRecords] = cp
    /\ Records[NumRecords - 1].p >= current_window
    /\ potential_prime = cp.p + 1

\* what a step of the discover phase may do to the store and its handle:
\* nothing, an append, or the rewind once the for loop is exhausted
DiscoverPhaseStep ==
    \/ (fp' = fp /\ bin' = bin)
    \/ IsAppendStep
    \/ /\ pc' = "window_loop"
       /\ fp' = 0
       /\ bin' = bin
       /\ ~(potential_prime < current_window + buffer_size)

\* C16: the mark phase of a window starts at offset 0 and reads the records
\* one after the other in file order, each once: a read takes the record at
\* the handle and moves the handle past it, marking and rewriting leave the
\* handle and the number of records as they are, and the end of the pass is
\* reported only with the handle at the end of the file.  The discover phase
\* reads nothing, and the handle goes back to 0 only when its for loop is
\* exhausted, after the window's last append.
C16_MarkPassReadsEachOnce ==
    /\ [](pc = "window_loop" => fp = 0)
    /\ [](pc = "mark_loop" => /\ fp >= SIZE
                              /\ fp % SIZE = 0
                              /\ fp <= Len(bin)
                              /\ Records[fp \div SIZE].p = cp.p)
    /\ [][pc = "mark_read" =>
            IF fp < Len(bin)
            THEN /\ pc' = "mark_loop"
                 /\ fp' = fp + SIZE
                 /\ cp' = Records[(fp \div SIZE) + 1]
                 /\ bin' = bin
            ELSE /\ pc' = "discover"
                 /\ fp' = fp
                 /\ bin' = bin]_vars
    /\ [][pc = "mark_loop" => (fp' = fp /\ Len(bin') = Len(bin))]_vars
    /\ [][(pc = "discover" \/ pc = "discover_mark") => DiscoverPhaseStep]_vars

C16_Witness ==
    /\ pc = "discover"
    /\ ret = "Ok(false)"
    /\ current_window > 0
    /\ NumRecords >= 3
    /\ fp = Len(bin)
    /\ Records[NumRecords] = cp
    /\ cp.nextval > 2 * cp.p
    /\ potential_prime = current_window

(***************************************************************************)
(* The engine together with its variant that rewrites every record it has  *)
(* read: lines 123-124 without the test of entered_loop.                   *)
(***************************************************************************)
MarkRewriteUnmarked ==
    /\ pc = "mark_loop"
    /\ ~InWindow(cp, current_window, buffer_size)
    /\ ~entered_loop
    /\ LET u == prime_unread(fp)
           w == prime_write(bin, u.pos, cp)
       IN  IF u.res = "Ok"
           THEN bin' = w.file /\ fp' = w.pos /\ ret' = "Ok" /\ pc' = "mark_read"
           ELSE bin' = bin /\ fp' = u.pos /\ ret' = "Err" /\ pc' = "io_error"
    /\ UNCHANGED <<args, bin_exists, csv_exists, csv, sieve_locals,
                   export_locals, slept>>

NextAnyRewrite == Next \/ MarkRewriteUnmarked

SpecAnyRewrite == Init /\ [][NextAnyRewrite]_vars

\* the multiples of r.p from a up to, not including, b
MultiplesBetween(r, a, b) == {m \in a..(b - 1) : (m - a) % r.p = 0}

\* C17: whether a record is skipped or rewritten when nothing was marked for
\* it makes no difference: the store's bytes change at the end of a record's
\* marking exactly when an index was marked for it, an unmarked record's
\* bytes stay whether it is skipped or rewritten, and the engine and the
\* always-rewriting variant have the same store after every window.
C17_SkipIsOptimisation ==
    /\ [](pc = "window_loop" => Records = StoreAfter(current_window, buffer_size))
    /\ [][(pc = "mark_loop" /\ pc' = "mark_read") =>
            LET old == Records[fp \div SIZE]
            IN  /\ entered_loop <=> bin' # bin
                /\ entered_loop <=> cp.nextval > old.nextval
                /\ \A m \in MultiplesBetween(cp, old.nextval, cp.nextval) :
                      /\ m >= current_window
                      /\ m < current_window + buffer_size
                      /\ ~is_prime[m - current_window + 1]
                /\ fp' = fp]_vars

C17_Witness ==
    /\ pc = "mark_read"
    /\ ret = "Ok"
    /\ ~entered_loop
    /\ fp >= 2 * SIZE
    /\ fp < Len(bin)
    /\ Records[fp \div SIZE] = cp
    /\ cp.nextval >= current_window + buffer_size

(***************************************************************************)
(* Termination of sieve: a measure that every step of sieve decreases.     *)
(***************************************************************************)
\* an iteration of one of the two marking loops (MarkBody, DiscoverMarkBody)
IsMarkingIteration == (pc = "mark_loop" \/ pc = "discover_mark") /\ pc' = pc

Monus(a, b) == IF a > b THEN a - b ELSE 0

\* windows still to process; phase of the window; records still to read or
\* candidates still to scan; multiples still to mark
Measure(at, cur, pos, len, pp, nv) ==
    LET wend == cur + buffer_size
        left == Monus(len, pos) \div SIZE
        scan == Monus(wend, pp)
    IN  << Monus(LastWindowEnd(upper_limit, buffer_size), cur),
           CASE at = "window_loop" -> 3
             [] at \in {"mark_read", "mark_loop"} -> 2
             [] at \in {"discover", "discover_mark"} -> 1
             [] OTHER -> 0,
           CASE at = "mark_read" -> 2 * left
             [] at = "mark_loop" -> 2 * left + 1
             [] at = "discover" -> 2 * scan + 1
             [] at = "discover_mark" -> 2 * scan
             [] OTHER -> 0,
           IF at \in {"mark_loop", "discover_mark"} THEN Monus(wend, nv) ELSE 0 >>

LexLess(m, n) ==
    \E i \in 1..Len(m) : m[i] < n[i] /\ \A j \in 1..(i - 1) : m[j] = n[j]

C19_WindowSizePositive ==
    /\ []((InSieve /\ upper_limit > 0) => buffer_size >= 1)
    /\ [][(pc = "discover" /\ pc' = "window_loop") =>
            current_window' >= current_window + 1]_vars

\* C20: a record read in the mark phase of the window starting at
\* current_window has nextval >= current_window, and so has a new prime in
\* the discover phase: the subtraction nextval - current_window never
\* overflows, and every index a marking loop computes is within 0..W-1, so
\* that the flag at that index is cleared.
C20_IndexInWindow ==
    /\ []((pc = "mark_loop" \/ pc = "discover_mark") =>
            cp.nextval >= current_window)
    /\ []((pc = "discover" /\ potential_prime < current_window + buffer_size) =>
            /\ potential_prime >= current_window
            /\ potential_prime - current_window + 1 \in DOMAIN is_prime)
    /\ [](pc # "panic")
    /\ [][IsMarkingIteration =>
            LET val == cp.nextval - current_window
            IN  /\ val >= 0
                /\ val < buffer_size
                /\ val + 1 \in DOMAIN is_prime
                /\ ~is_prime'[val + 1]]_vars

C20_Witness ==
    /\ pc = "mark_loop"
    /\ current_window > 0
    /\ entered_loop
    /\ buffer_size >= 3
    /\ cp.nextval - cp.p = current_window
    /\ cp.nextval = current_window + buffer_size - 1
    /\ ~is_prime[1]

====
